---- MODULE Spec2Model ----
(***************************************************************************)
(* Model of "Image formation/pinhole_vs_lens.py": the blur primitive, the  *)
(* defocus compositor render_lens, the depth approximator and the scene    *)
(* synthesizer, and the main routine that writes the output files.         *)
(*                                                                         *)
(* Numbers.  Pixel intensities are real numbers in the code (float32);     *)
(* here an intensity v is the integer v * Unit, so that every value the    *)
(* program produces (k/255, the colours of make_scene) is an integer.      *)
(* One colour channel is modelled: every operation of the file treats the  *)
(* three channels alike and a boolean mask selects whole pixels.           *)
(* A depth map carries its own denominator den: the entry d stands for     *)
(* the depth d / den.  Focus depths and blur strengths are in tenths.      *)
(*                                                                         *)
(* Arrays.  A numpy array is a record [h, w, den, data], data being the    *)
(* row-major sequence of its h*w entries.  Buffers live in heap, a         *)
(* sequence of arrays; a buffer's identity is its index in heap, so that   *)
(* a copy and an alias are different things.                               *)
(***************************************************************************)
EXTENDS Integers, Sequences, FiniteSets, TLC

VARIABLES
    heap,   \* the buffers allocated so far
    pc,     \* harness: "ready", "returned", "raised"; main: the next statement
    call,   \* the last call of a function under study and its arguments
    ret,    \* what that call left
    loc,    \* main's local variables: buffer ids, 0 while unbound
    fslog,  \* the file-system writes made so far, in order
    seen,   \* what os.path.exists(photo_path) answered, once asked
    chan,   \* the colour channel modelled (0 red, 1 green, 2 blue)
    scene   \* harness: the digest of what make_scene returned

vars == <<heap, pc, call, ret, loc, fslog, seen, chan, scene>>

\* ------------------------------------------------------------------ bounds
\* Largest number of pixels (h * w) of an image or depth map given to the
\* functions by the harness.
MaxPixels == 3

\* The size at which the modelled run of main builds its scene.  main calls
\* make_scene() at the default size, SceneWidth x SceneHeight; buffers of
\* that size do not fit a state, so the run keeps the code and shrinks the
\* canvas.  The harness calls make_scene at the default size as well.
SceneCols == 4
SceneRows == 3

\* ------------------------------------------------------- program constants
SceneWidth == 400
SceneHeight == 250
U8Max == 255
SigmaBg == 60
SigmaMg == 30
FocusMargin == 5
FarDepth == 40
SceneFocus == 10
PhotoFocus == 15

\* One unit of intensity is 1 / Unit: a multiple of 255 (blur output) and of
\* 100 * (SceneHeight - 1) (the sky gradient of make_scene).
Unit == 100 * U8Max * (SceneHeight - 1)

\* ------------------------------------------------------------------ arrays
Idx(a, y, x) == y * a.w + x + 1

At(a, y, x) == a.data[Idx(a, y, x)]

Rows(a) == 0 .. (a.h - 1)

Cols(a) == 0 .. (a.w - 1)

SameShape(a, b) == a.h = b.h /\ a.w = b.w

Min(a, b) == IF a < b THEN a ELSE b

Max(a, b) == IF a > b THEN a ELSE b

\* The sequence s itself, as a tuple of values that TLC computes once instead
\* of at every use.
Eager(s) == SubSeq(s, 1, Len(s))

MkArray(h, w, den, f(_, _)) ==
    [h |-> h, w |-> w, den |-> den,
     data |-> Eager([i \in 1 .. (h * w) |-> f((i - 1) \div w, (i - 1) % w)])]

\* A freshly allocated buffer holding array a.
Alloc(hp, a) == [heap |-> Append(hp, a), ret |-> Len(hp) + 1]

\* ndarray.copy(): a new buffer with the same values.
Copy(hp, id) == Alloc(hp, hp[id])

\* ------------------------------------------------------------ blur_image_rgb
\* (np.clip(img, 0.0, 1.0) * 255.0).astype(np.uint8): clip, scale, truncate.
ToU8(v) == (U8Max * Max(0, Min(Unit, v))) \div Unit

\* .astype(np.float32) / 255.0
FromU8(q) == q * (Unit \div U8Max)

\* Pillow's GaussianBlur is a library routine: it approximates the Gaussian
\* by box averages over a window whose half-width grows with the radius,
\* extending the image by its edge pixels.  It is modelled by one horizontal
\* and one vertical box average of half-width BoxRadius(sigma), rounded to
\* the nearest 8-bit value.
BoxRadius(sigma) ==
    CHOOSE l \in 0 .. sigma :
        /\ (10 * l + 5) * (10 * l + 5) <= sigma * sigma + 25
        /\ (10 * l + 15) * (10 * l + 15) > sigma * sigma + 25

RECURSIVE SumRange(_, _, _)
SumRange(f(_), lo, hi) ==
    IF lo > hi THEN 0 ELSE f(lo) + SumRange(f, lo + 1, hi)

RoundDiv(s, n) == (2 * s + n) \div (2 * n)

BoxH(a, l) ==
    LET px(y, x) ==
            LET f(k) == At(a, y, Max(0, Min(a.w - 1, x + k)))
            IN RoundDiv(SumRange(f, 0 - l, l), 2 * l + 1)
    IN MkArray(a.h, a.w, a.den, px)

BoxV(a, l) ==
    LET px(y, x) ==
            LET f(k) == At(a, Max(0, Min(a.h - 1, y + k)), x)
            IN RoundDiv(SumRange(f, 0 - l, l), 2 * l + 1)
    IN MkArray(a.h, a.w, a.den, px)

GaussianBlur(a, sigma) == BoxV(BoxH(a, BoxRadius(sigma)), BoxRadius(sigma))

\* (np.clip(img, 0.0, 1.0) * 255.0).astype(np.uint8)
Quantize(a) ==
    LET q(y, x) == ToU8(At(a, y, x))
    IN MkArray(a.h, a.w, U8Max, q)

\* np.asarray(blurred).astype(np.float32) / 255.0
Dequantize(blurred) ==
    LET back(y, x) == FromU8(At(blurred, y, x))
    IN MkArray(blurred.h, blurred.w, Unit, back)

BlurArray(a, sigma) == Dequantize(GaussianBlur(Quantize(a), sigma))

\* A variant: only a negative strength skips the blur.
blur_image_rgb_negative_only(hp, img, sigma) ==
    IF sigma < 0 THEN Copy(hp, img)
    ELSE Alloc(hp, BlurArray(hp[img], sigma))

blur_image_rgb(hp, img, sigma) ==
    IF sigma <= 0 THEN Copy(hp, img)
    ELSE Alloc(hp, BlurArray(hp[img], sigma))

\* ------------------------------------------------------------ render_pinhole
\* A variant: the input itself is returned.
render_pinhole_alias(hp, img) == [heap |-> hp, ret |-> img]

render_pinhole(hp, img) == Copy(hp, img)

\* --------------------------------------------------------------- render_lens
\* depth <= (focus_depth + 0.5), entry by entry: d / den <= (focus + 5) / 10.
fg_mask(depth, focus) ==
    LET m(y, x) == 10 * At(depth, y, x) <= (focus + FocusMargin) * depth.den
    IN MkArray(depth.h, depth.w, 1, m)

\* (depth > (focus_depth + 0.5)) & (depth <= 4.0)
mg_mask(depth, focus) ==
    LET m(y, x) == /\ 10 * At(depth, y, x) > (focus + FocusMargin) * depth.den
                   /\ 10 * At(depth, y, x) <= FarDepth * depth.den
    IN MkArray(depth.h, depth.w, 1, m)

\* A variant: the comparison of the far mask turned round.
bg_mask_flipped(depth, focus) ==
    LET m(y, x) == 10 * At(depth, y, x) < FarDepth * depth.den
    IN MkArray(depth.h, depth.w, 1, m)

\* depth > 4.0
bg_mask(depth, focus) ==
    LET m(y, x) == 10 * At(depth, y, x) > FarDepth * depth.den
    IN MkArray(depth.h, depth.w, 1, m)

\* np.zeros_like(img)
zeros_like(a) ==
    LET z(y, x) == 0
    IN MkArray(a.h, a.w, a.den, z)

\* A variant: a mask at least as large as the array is accepted too.
BoolIndexOk_covering(arr, mask) == mask.h >= arr.h /\ mask.w >= arr.w

\* numpy accepts a boolean index only when its shape equals the leading
\* dimensions of the indexed array; otherwise arr[mask] raises IndexError.
BoolIndexOk(arr, mask) == SameShape(arr, mask)

\* out[mask] = src[mask]
AssignMasked(out, mask, src) ==
    LET v(y, x) == IF At(mask, y, x) THEN At(src, y, x) ELSE At(out, y, x)
    IN MkArray(out.h, out.w, out.den, v)

\* An array holding the same tag everywhere: the ranks of the three sources
\* (0 original, 1 light blur, 2 heavy blur; -1 the initial zero).
Tags(a, t) ==
    LET v(y, x) == t
    IN MkArray(a.h, a.w, 1, v)

\* A variant: the far layer is written first and the near layer last.
Composite_far_first(out, fg, mg, bg, img, mg_blur, bg_blur) ==
    AssignMasked(AssignMasked(AssignMasked(out, bg, bg_blur), mg, mg_blur),
                 fg, img)

\* The three assignments of lines 102-104, in the order the code makes them.
Composite(out, fg, mg, bg, img, mg_blur, bg_blur) ==
    AssignMasked(AssignMasked(AssignMasked(out, fg, img), mg, mg_blur),
                 bg, bg_blur)

NoRet == [id |-> 0, err |-> "", bg |-> 0, mg |-> 0, src |-> <<>>]

NoCall ==
    [fn |-> "", img |-> 0, depth |-> 0, focus |-> 0, sigma |-> 0,
     size |-> <<0, 0>>]

\* Lines 96-105, given the two blurred buffers b1 (bg_blur) and b2 (mg_blur).
\* The result is the new heap and what the call left: the returned buffer
\* (id), the exception raised (err), the buffers of the locals bg_blur and
\* mg_blur, and for each pixel the rank of the source last written to it.
LensLayers(hp, img, depth, focus, b1, b2, fg, mg, bg) ==
    IF BoolIndexOk(hp[img], fg)
    THEN [heap |-> Append(b2.heap,
                          Composite(zeros_like(hp[img]), fg, mg, bg, hp[img],
                                    b2.heap[b2.ret], b1.heap[b1.ret])),
          ret |-> [id |-> Len(b2.heap) + 1, err |-> "",
                   bg |-> b1.ret, mg |-> b2.ret,
                   src |-> Composite(Tags(hp[img], 0 - 1), fg, mg, bg,
                                     Tags(hp[img], 0), Tags(hp[img], 1),
                                     Tags(hp[img], 2)).data]]
    ELSE [heap |-> b2.heap,
          ret |-> [id |-> 0, err |-> "IndexError",
                   bg |-> b1.ret, mg |-> b2.ret, src |-> <<>>]]

\* Line 94, given bg_blur (b1).
LensMg(hp, img, depth, focus, b1) ==
    LensLayers(hp, img, depth, focus, b1,
               blur_image_rgb(b1.heap, img, SigmaMg),
               fg_mask(hp[depth], focus), mg_mask(hp[depth], focus),
               bg_mask(hp[depth], focus))

render_lens(hp, img, depth, focus) ==
    LensMg(hp, img, depth, focus, blur_image_rgb(hp, img, SigmaBg))

\* ----------------------------------------------------- fake_depth_from_photo
\* A variant: 1.0 + 6.0 * y, the gradient upside down.
fake_depth_rising(hp, img) ==
    LET h == hp[img].h
        den == IF h > 1 THEN h - 1 ELSE 1
        d(y, x) == den + 6 * y
    IN Alloc(hp, MkArray(h, hp[img].w, den, d))

\* np.linspace(0.0, 1.0, h)[y] is y / (h - 1), and 0 when h = 1; the depth
\* 1.0 + 6.0 * (1.0 - y / (h - 1)) is (7 * (h - 1) - 6 * y) / (h - 1).
fake_depth_from_photo(hp, img) ==
    LET h == hp[img].h
        den == IF h > 1 THEN h - 1 ELSE 1
        d(y, x) == 7 * den - 6 * y
    IN Alloc(hp, MkArray(h, hp[img].w, den, d))

\* ---------------------------------------------------------------- make_scene
\* int(n * p / 100) for the sizes and fractions of make_scene.
Pct(n, p) == (n * p) \div 100

\* A slice bound i of an axis of length n, as Python normalises it.
Norm(i, n) == IF i < 0 THEN Max(i + n, 0) ELSE Min(i, n)

InSlice(i, lo, hi, n) == Norm(lo, n) <= i /\ i < Norm(hi, n)

\* range(max(0, c - r), min(n, c + r))
InRange(i, c, r, n) == Max(0, c - r) <= i /\ i < Min(n, c + r)

InDisc(y, x, cy, cx, r) == (x - cx) * (x - cx) + (y - cy) * (y - cy) <= r * r

\* The colour <<r, g, b>>, given in hundredths, on channel c.
Colour(rgb, c) == (Unit \div 100) * rgb[c + 1]

\* Lines 37-40: [0.65 - 0.35 * t, 0.85 - 0.45 * t, 1.0] with t = y / (height - 1).
Sky(height, c, y) ==
    Colour(<<65, 85, 100>>, c)
        - ((Unit \div 100) * <<35, 45, 0>>[c + 1] * y) \div (height - 1)

InGround(height, y) == y >= Pct(height, 55)

InSunLoop(width, height, y, x) ==
    /\ InRange(y, Pct(height, 20), 50, height)
    /\ InRange(x, Pct(width, 80), 50, width)
    /\ InDisc(y, x, Pct(height, 20), Pct(width, 80), 50)

InSunSlice(width, height, y, x) ==
    /\ InSlice(y, Pct(height, 20) - 50, Pct(height, 20) + 50, height)
    /\ InSlice(x, Pct(width, 80) - 50, Pct(width, 80) + 50, width)

InRect(width, height, y, x) ==
    /\ InSlice(y, Pct(height, 35), Pct(height, 80), height)
    /\ InSlice(x, Pct(width, 15), Pct(width, 45), width)

InCircle(width, height, y, x) ==
    /\ InRange(y, Pct(height, 55), 45, height)
    /\ InRange(x, Pct(width, 30), 45, width)
    /\ InDisc(y, x, Pct(height, 55), Pct(width, 30), 45)

InStripe(width, height, y, x) ==
    /\ InSlice(y, Pct(height, 32), Pct(height, 32) + 10, height)
    /\ InSlice(x, Pct(width, 55), Pct(width, 95), width)

\* The value the pixel holds after all the writes of lines 34-80: that of the
\* last write that covers it.
SceneColour(width, height, c, y, x) ==
    IF InStripe(width, height, y, x) THEN Colour(<<10, 10, 10>>, c)
    ELSE IF InCircle(width, height, y, x) THEN Colour(<<97, 97, 97>>, c)
    ELSE IF InRect(width, height, y, x) THEN Colour(<<20, 40, 90>>, c)
    ELSE IF InSunLoop(width, height, y, x) THEN Colour(<<100, 90, 40>>, c)
    ELSE IF InGround(height, y)
         THEN IF ((x \div 40) + (y \div 40)) % 2 = 0
              THEN Colour(<<75, 75, 75>>, c)
              ELSE Colour(<<55, 55, 55>>, c)
    ELSE Sky(height, c, y)

\* A variant: the white circle leaves the depth of the block under it.
SceneDepth_circle_unset(width, height, y, x) ==
    IF InStripe(width, height, y, x) THEN 70
    ELSE IF InRect(width, height, y, x) THEN 12
    ELSE IF InSunSlice(width, height, y, x) THEN 80
    ELSE IF InGround(height, y) THEN 60
    ELSE 50

\* The depth (in tenths) the pixel holds after all the writes of lines 35-80.
SceneDepth(width, height, y, x) ==
    IF InStripe(width, height, y, x) THEN 70
    ELSE IF InCircle(width, height, y, x) THEN 10
    ELSE IF InRect(width, height, y, x) THEN 12
    ELSE IF InSunSlice(width, height, y, x) THEN 80
    ELSE IF InGround(height, y) THEN 60
    ELSE 50

SceneImage(width, height, c) ==
    LET v(y, x) == SceneColour(width, height, c, y, x)
    IN MkArray(height, width, Unit, v)

SceneDepthMap(width, height) ==
    LET d(y, x) == SceneDepth(width, height, y, x)
    IN MkArray(height, width, 10, d)

\* Returns (img, depth): two new buffers.
make_scene(hp, width, height, c) ==
    [heap |-> hp \o <<SceneImage(width, height, c), SceneDepthMap(width, height)>>,
     img |-> Len(hp) + 1,
     depth |-> Len(hp) + 2]

\* ----------------------------------------------------------------- file I/O
\* save_image writes the clipped, 8-bit image to path.
save_image(log, path, img) ==
    Append(log, [op |-> "save", path |-> path, h |-> img.h, w |-> img.w,
                 data |-> Quantize(img).data])

\* draw_ray_diagram writes a fixed 1000 x 400 drawing (its pixels are not
\* modelled) to path.
draw_ray_diagram(log, path) ==
    Append(log, [op |-> "save", path |-> path, h |-> 400, w |-> 1000,
                 data |-> <<>>])

\* os.makedirs(OUTPUT_DIR, exist_ok=True)
makedirs(log, path) ==
    Append(log, [op |-> "makedirs", path |-> path, h |-> 0, w |-> 0,
                 data |-> <<>>])

\* load_photo decodes the file and resizes it with Pillow: it returns a new
\* array, decoded, which depends on the file alone.
load_photo(hp, decoded) == Alloc(hp, decoded)

\* What the harness keeps of the two arrays make_scene returned: their shapes
\* and, for each depth (in tenths) that occurs, the number of pixels at it.
Histogram(a) ==
    {<<v, Cardinality({i \in 1 .. (a.h * a.w) : a.data[i] = v})>> :
        v \in {a.data[i] : i \in 1 .. (a.h * a.w)}}

SceneDigest(img, depth) ==
    [img |-> <<img.h, img.w>>, depth |-> <<depth.h, depth.w>>,
     regions |-> Histogram(depth)]

NoScene == [img |-> <<0, 0>>, depth |-> <<0, 0>>, regions |-> {}]

\* ------------------------------------------------------------------ harness
\* The functions are called on inputs drawn from bounded sets.
Shapes == {s \in (1 .. MaxPixels) \X (1 .. MaxPixels) : s[1] * s[2] <= MaxPixels}

ArraysOver(s, V, den) ==
    {[h |-> s[1], w |-> s[2], den |-> den, data |-> d] :
        d \in [1 .. (s[1] * s[2]) -> V]}

\* 0.5 (not a multiple of 1/255) and 1.0
PixelValues == {Unit \div 2, Unit}

\* 1.0, 4.0, 4.2 and 10.0
DepthValues == {10, 40, 42, 100}

\* 1.0, 3.5 and 4.0
FocusDepths == {10, 35, 40}

Sigmas == {0 - 10, 0, SigmaMg, SigmaBg}

Images == UNION {ArraysOver(s, PixelValues, Unit) : s \in Shapes}

DepthMaps == UNION {ArraysOver(s, DepthValues, 10) : s \in Shapes}

NoLocals ==
    [scene |-> 0, depth |-> 0, pinhole |-> 0, lens |-> 0, photo |-> 0,
     photo_depth |-> 0, photo_pinhole |-> 0, photo_lens |-> 0]

NotAsked == [asked |-> FALSE, exists |-> FALSE]

\* The sizes make_scene is called at: the default and the run's.
SceneSizes == {<<SceneWidth, SceneHeight>>, <<SceneCols, SceneRows>>}

\* The heap holds the image to call a function on, or nothing yet: make_scene
\* takes no image.
Init ==
    /\ \/ heap = <<>> /\ chan \in 0 .. 2
       \/ \E a \in Images : heap = <<a>> /\ chan = 0
    /\ pc = "ready"
    /\ call = NoCall
    /\ ret = NoRet
    /\ loc = NoLocals
    /\ fslog = <<>>
    /\ seen = NotAsked
    /\ scene = NoScene

\* The state a call leaves: r is what the function returned.
Returned(r, c) ==
    /\ heap' = r.heap
    /\ ret' = [NoRet EXCEPT !.id = r.ret]
    /\ call' = c
    /\ pc' = "returned"
    /\ UNCHANGED <<loc, fslog, seen, chan, scene>>

CallBlur ==
    /\ pc = "ready"
    /\ heap # <<>>
    /\ \E sigma \in Sigmas :
        Returned(blur_image_rgb(heap, 1, sigma),
                 [NoCall EXCEPT !.fn = "blur_image_rgb", !.img = 1,
                                !.sigma = sigma])

CallPinhole ==
    /\ pc = "ready"
    /\ heap # <<>>
    /\ Returned(render_pinhole(heap, 1),
                [NoCall EXCEPT !.fn = "render_pinhole", !.img = 1])

CallFakeDepth ==
    /\ pc = "ready"
    /\ heap # <<>>
    /\ Returned(fake_depth_from_photo(heap, 1),
                [NoCall EXCEPT !.fn = "fake_depth_from_photo", !.img = 1])

LensReturned(r, c) ==
    /\ heap' = r.heap
    /\ ret' = r.ret
    /\ call' = c
    /\ pc' = IF r.ret.err = "" THEN "returned" ELSE "raised"
    /\ UNCHANGED <<loc, fslog, seen, chan, scene>>

CallLens ==
    /\ pc = "ready"
    /\ heap # <<>>
    /\ \E d \in DepthMaps, focus \in FocusDepths :
        LensReturned(render_lens(Append(heap, d), 1, 2, focus),
                     [NoCall EXCEPT !.fn = "render_lens", !.img = 1,
                                    !.depth = 2, !.focus = focus])

\* The two arrays are not kept on the heap: the state records their digest.
SceneReturned(r, c) ==
    /\ scene' = SceneDigest(r.heap[r.img], r.heap[r.depth])
    /\ call' = c
    /\ pc' = "returned"
    /\ UNCHANGED <<heap, ret, loc, fslog, seen, chan>>

CallMakeScene ==
    /\ pc = "ready"
    /\ heap = <<>>
    /\ \E size \in SceneSizes :
        SceneReturned(make_scene(heap, size[1], size[2], chan),
                      [NoCall EXCEPT !.fn = "make_scene", !.size = size])

Next == CallBlur \/ CallPinhole \/ CallFakeDepth \/ CallLens \/ CallMakeScene

Spec == Init /\ [][Next]_vars

\* --------------------------------------------------------------------- main
\* One action for each statement of main; pc names the statement to run next.
MainInit ==
    /\ heap = <<>>
    /\ pc = "makedirs"
    /\ call = NoCall
    /\ ret = NoRet
    /\ loc = NoLocals
    /\ fslog = <<>>
    /\ seen = NotAsked
    /\ chan \in 0 .. 2
    /\ scene = NoScene

main_makedirs ==
    /\ pc = "makedirs"
    /\ fslog' = makedirs(fslog, "outputs")
    /\ pc' = "make_scene"
    /\ UNCHANGED <<heap, call, ret, loc, seen, chan, scene>>

SceneMade(r) ==
    /\ heap' = r.heap
    /\ loc' = [loc EXCEPT !.scene = r.img, !.depth = r.depth]

main_make_scene ==
    /\ pc = "make_scene"
    /\ SceneMade(make_scene(heap, SceneCols, SceneRows, chan))
    /\ pc' = "render_pinhole"
    /\ UNCHANGED <<call, ret, fslog, seen, chan, scene>>

PinholeMade(r, c, l, nextpc) ==
    /\ heap' = r.heap
    /\ ret' = [NoRet EXCEPT !.id = r.ret]
    /\ call' = c
    /\ loc' = l
    /\ pc' = nextpc

main_render_pinhole ==
    /\ pc = "render_pinhole"
    /\ PinholeMade(render_pinhole(heap, loc.scene),
                   [NoCall EXCEPT !.fn = "render_pinhole", !.img = loc.scene],
                   [loc EXCEPT !.pinhole = Len(heap) + 1], "render_lens")
    /\ UNCHANGED <<fslog, seen, chan, scene>>

\* An exception of render_lens leaves main: nothing catches it.
LensMade(r, c, scenelens, nextpc) ==
    /\ heap' = r.heap
    /\ ret' = r.ret
    /\ call' = c
    /\ loc' = IF r.ret.err # "" THEN loc
              ELSE IF scenelens THEN [loc EXCEPT !.lens = r.ret.id]
              ELSE [loc EXCEPT !.photo_lens = r.ret.id]
    /\ pc' = IF r.ret.err = "" THEN nextpc ELSE "raised"

main_render_lens ==
    /\ pc = "render_lens"
    /\ LensMade(render_lens(heap, loc.scene, loc.depth, SceneFocus),
                [NoCall EXCEPT !.fn = "render_lens", !.img = loc.scene,
                               !.depth = loc.depth, !.focus = SceneFocus],
                TRUE, "save_pinhole")
    /\ UNCHANGED <<fslog, seen, chan, scene>>

main_save_pinhole ==
    /\ pc = "save_pinhole"
    /\ fslog' = save_image(fslog, "outputs/scene_pinhole.png", heap[loc.pinhole])
    /\ pc' = "save_lens"
    /\ UNCHANGED <<heap, call, ret, loc, seen, chan, scene>>

main_save_lens ==
    /\ pc = "save_lens"
    /\ fslog' = save_image(fslog, "outputs/scene_lens.png", heap[loc.lens])
    /\ pc' = "ray_diagram"
    /\ UNCHANGED <<heap, call, ret, loc, seen, chan, scene>>

main_draw_ray_diagram ==
    /\ pc = "ray_diagram"
    /\ fslog' = draw_ray_diagram(fslog, "outputs/ray_diagram.png")
    /\ pc' = "exists"
    /\ UNCHANGED <<heap, call, ret, loc, seen, chan, scene>>

\* A variant: the photo is loaded whatever the answer.
main_exists_unheeded ==
    /\ pc = "exists"
    /\ \E e \in BOOLEAN : seen' = [asked |-> TRUE, exists |-> e]
    /\ pc' = "load_photo"
    /\ UNCHANGED <<heap, call, ret, loc, fslog, chan, scene>>

\* if os.path.exists(photo_path): the file system answers either way.
main_exists ==
    /\ pc = "exists"
    /\ \E e \in BOOLEAN :
        /\ seen' = [asked |-> TRUE, exists |-> e]
        /\ pc' = IF e THEN "load_photo" ELSE "print"
    /\ UNCHANGED <<heap, call, ret, loc, fslog, chan, scene>>

PhotoLoaded(r) ==
    /\ heap' = r.heap
    /\ loc' = [loc EXCEPT !.photo = r.ret]

main_load_photo ==
    /\ pc = "load_photo"
    /\ \E a \in Images : PhotoLoaded(load_photo(heap, a))
    /\ pc' = "fake_depth"
    /\ UNCHANGED <<call, ret, fslog, seen, chan, scene>>

main_fake_depth ==
    /\ pc = "fake_depth"
    /\ PinholeMade(fake_depth_from_photo(heap, loc.photo),
                   [NoCall EXCEPT !.fn = "fake_depth_from_photo",
                                  !.img = loc.photo],
                   [loc EXCEPT !.photo_depth = Len(heap) + 1], "photo_pinhole")
    /\ UNCHANGED <<fslog, seen, chan, scene>>

main_photo_pinhole ==
    /\ pc = "photo_pinhole"
    /\ PinholeMade(render_pinhole(heap, loc.photo),
                   [NoCall EXCEPT !.fn = "render_pinhole", !.img = loc.photo],
                   [loc EXCEPT !.photo_pinhole = Len(heap) + 1], "photo_lens")
    /\ UNCHANGED <<fslog, seen, chan, scene>>

main_photo_lens ==
    /\ pc = "photo_lens"
    /\ LensMade(render_lens(heap, loc.photo, loc.photo_depth, PhotoFocus),
                [NoCall EXCEPT !.fn = "render_lens", !.img = loc.photo,
                               !.depth = loc.photo_depth, !.focus = PhotoFocus],
                FALSE, "save_photo_pinhole")
    /\ UNCHANGED <<fslog, seen, chan, scene>>

main_save_photo_pinhole ==
    /\ pc = "save_photo_pinhole"
    /\ fslog' = save_image(fslog, "outputs/photo_pinhole.png",
                           heap[loc.photo_pinhole])
    /\ pc' = "save_photo_lens"
    /\ UNCHANGED <<heap, call, ret, loc, seen, chan, scene>>

main_save_photo_lens ==
    /\ pc = "save_photo_lens"
    /\ fslog' = save_image(fslog, "outputs/photo_lens.png", heap[loc.photo_lens])
    /\ pc' = "print"
    /\ UNCHANGED <<heap, call, ret, loc, seen, chan, scene>>

main_print ==
    /\ pc = "print"
    /\ pc' = "done"
    /\ UNCHANGED <<heap, call, ret, loc, fslog, seen, chan, scene>>

MainNext ==
    \/ main_makedirs
    \/ main_make_scene
    \/ main_render_pinhole
    \/ main_render_lens
    \/ main_save_pinhole
    \/ main_save_lens
    \/ main_draw_ray_diagram
    \/ main_exists
    \/ main_load_photo
    \/ main_fake_depth
    \/ main_photo_pinhole
    \/ main_photo_lens
    \/ main_save_photo_pinhole
    \/ main_save_photo_lens
    \/ main_print

SpecMain == MainInit /\ [][MainNext]_vars

\* Both: the harness calls and a run of main.
SpecAll == (Init \/ MainInit) /\ [][Next \/ MainNext]_vars

\* ------------------------------------------------------------------- claims
\* A harness call of render_lens has returned an image.
LensDone == pc = "returned" /\ call.fn = "render_lens"

Pixels(a) == 1 .. (a.h * a.w)

\* The entry d of depth map dm is <= (focus + 0.5), etc.
Near(dm, d, focus) == 10 * d <= (focus + FocusMargin) * dm.den

Far(dm, d) == 10 * d > FarDepth * dm.den

\* C1: every pixel whose depth is <= focus_depth + 0.5 holds the unblurred
\* input pixel in the output of render_lens, for every focus depth.
C1_NearBandUnblurred ==
    LensDone =>
        \A i \in Pixels(heap[call.depth]) :
            Near(heap[call.depth], heap[call.depth].data[i], call.focus)
                => heap[ret.id].data[i] = heap[call.img].data[i]

\* C2: the three masks of render_lens form a partition of the pixel
\* positions (each pixel in exactly one mask), and every pixel is written.
C2_MasksPartition ==
    LensDone =>
        \A i \in Pixels(heap[call.depth]) :
            /\ Cardinality({k \in 1 .. 3 :
                    <<fg_mask(heap[call.depth], call.focus),
                      mg_mask(heap[call.depth], call.focus),
                      bg_mask(heap[call.depth], call.focus)>>[k].data[i]}) = 1
            /\ ret.src[i] # 0 - 1

\* C3: when the depth map's height or width differs from the image's,
\* render_lens raises a shape-mismatch error (numpy's IndexError) and returns
\* no image: no output buffer is allocated.
C3_ShapeMismatchRaises ==
    (/\ call.fn = "render_lens"
     /\ pc \in {"returned", "raised"}
     /\ ~SameShape(heap[call.img], heap[call.depth]))
        => /\ pc = "raised"
           /\ ret.err = "IndexError"
           /\ ret.id = 0
           /\ Len(heap) = ret.mg

C3_Witness ==
    /\ pc = "raised"
    /\ call.fn = "render_lens"
    /\ heap[call.img].h # heap[call.depth].h
    /\ heap[call.img].w = heap[call.depth].w
    /\ ret.err = "IndexError"

\* Depth map dm is non-decreasing, and the ranks src of the sources are
\* non-decreasing, from each pixel to the next along the axis.
NonDecreasing(dm, data, axis) ==
    \A y \in Rows(dm), x \in Cols(dm) :
        IF axis = 0
        THEN y + 1 < dm.h => data[Idx(dm, y, x)] <= data[Idx(dm, y + 1, x)]
        ELSE x + 1 < dm.w => data[Idx(dm, y, x)] <= data[Idx(dm, y, x + 1)]

\* C4: if the depth map is non-decreasing along an axis, the rank of the
\* source finally used for each pixel (0 original, 1 light, 2 heavy) is
\* non-decreasing along that axis.
C4_SourceMonotone ==
    LensDone =>
        \A axis \in {0, 1} :
            NonDecreasing(heap[call.depth], heap[call.depth].data, axis)
                => NonDecreasing(heap[call.depth], ret.src, axis)

C4_Witness ==
    /\ LensDone
    /\ heap[call.depth].data = <<10, 40, 42>>
    /\ call.focus = 10
    /\ ret.src = <<0, 1, 2>>

C6_NoBlurCopies ==
    (pc = "returned" /\ call.fn = "blur_image_rgb" /\ call.sigma <= 0)
        => /\ SameShape(heap[ret.id], heap[call.img])
           /\ heap[ret.id].data = heap[call.img].data
           /\ ret.id # call.img

\* Sigma zero, on an image with a value (0.5) that 8 bits cannot hold.
C6_Witness ==
    /\ pc = "returned"
    /\ call.fn = "blur_image_rgb"
    /\ call.sigma = 0
    /\ \E i \in Pixels(heap[call.img]) : heap[call.img].data[i] = Unit \div 2
    /\ heap[ret.id] = heap[call.img]

RECURSIVE Paths(_)
Paths(log) ==
    IF log = <<>> THEN <<>> ELSE <<Head(log).path>> \o Paths(Tail(log))

IsPrefix(s, t) == Len(s) <= Len(t) /\ s = SubSeq(t, 1, Len(s))

SceneOutputs ==
    <<"outputs", "outputs/scene_pinhole.png", "outputs/scene_lens.png",
      "outputs/ray_diagram.png">>

PhotoOutputs == <<"outputs/photo_pinhole.png", "outputs/photo_lens.png">>

C7_InputsUntouched ==
    [][/\ Len(heap') >= Len(heap)
       /\ \A i \in 1 .. Len(heap) : heap'[i] = heap[i]
       /\ (/\ <<call', ret'>> # <<call, ret>>
           /\ call'.fn \in {"render_lens", "render_pinhole", "blur_image_rgb"}
           /\ ret'.id # 0)
            => /\ ret'.id > Len(heap)
               /\ ret'.id \notin {call'.img, call'.depth}
       /\ loc.scene # 0 => loc'.scene = loc.scene /\ loc'.depth = loc.depth
      ]_vars

\* main has ended with the photo: the scene went to render_pinhole and to
\* render_lens, and holds what make_scene put there.
C7_Witness ==
    /\ pc = "done"
    /\ loc.photo_lens # 0
    /\ loc.pinhole # loc.scene
    /\ heap[loc.pinhole] = heap[loc.scene]
    /\ heap[loc.lens] # heap[loc.scene]
    /\ heap[loc.scene] = SceneImage(SceneCols, SceneRows, chan)

\* make_scene has returned from a call at the default size, the one main
\* makes.
SceneDone ==
    pc = "returned" /\ call.fn = "make_scene"
        /\ call.size = <<SceneWidth, SceneHeight>>

\* C8 as stated: the scene's image and depth map have the same height and
\* width, and the depth map has a region strictly nearer than the focus
\* depth main passes to render_lens (SceneFocus, 1.0) and one strictly farther.
C8_NearerAndFarther ==
    SceneDone =>
        /\ scene.img = scene.depth
        /\ \E r \in scene.regions : r[1] < SceneFocus
        /\ \E r \in scene.regions : r[1] > SceneFocus

\* C8, amended: the scene's image and depth map have the same height and
\* width; no region is strictly nearer than the focus depth main passes
\* (1.0), the nearest region lies exactly at it, and one is strictly farther.
C8_AtFocusAndFarther ==
    SceneDone =>
        /\ scene.img = scene.depth
        /\ scene.img = <<SceneHeight, SceneWidth>>
        /\ \A r \in scene.regions : r[1] >= SceneFocus
        /\ \E r \in scene.regions : r[1] = SceneFocus /\ r[2] > 0
        /\ \E r \in scene.regions : r[1] > SceneFocus /\ r[2] > 0

\* The six depths of the default scene: circle 1.0, block 1.2, sky 5.0,
\* ground 6.0, stripe 7.0, sun 8.0.
C8_Witness ==
    /\ SceneDone
    /\ {r[1] : r \in scene.regions} = {10, 12, 50, 60, 70, 80}

====
